---------------------------- MODULE Spec2Model ----------------------------
(***************************************************************************)
(* A model of the trace ingestion and indexing engine of src/app.py (the   *)
(* Evosep Eno data viewer): the time codec, the trace file parser, the     *)
(* journal extractor, the metric indexer, the run catalog, the run table   *)
(* callback, scans that race with another process, and the run table of    *)
(* the page over a sequence of events.                                     *)
(*                                                                         *)
(* Text is modelled as sequences of one-character strings, and Python's    *)
(* str.split, str.strip, str.lower, int() and float() are operators that   *)
(* work on those sequences character by character.                         *)
(***************************************************************************)
EXTENDS Integers, Sequences, FiniteSets, TLC

VARIABLES
    time_str,      \* the argument of parse_time_to_seconds
    time_ret,      \* what the call did: not called yet, a value, None, or a raise
    file,          \* the file parse_data_file is given: whether it reads, its lines
    parse_ret,     \* what parse_data_file returned
    fs,            \* the file system under the data root
    base_dir,      \* the base_dir argument: "None" or "root"
    run_name,      \* the run_name argument of get_metrics_for_run
    metrics_ret,   \* what get_metrics_for_run returned
    runs_ret,      \* what get_available_runs did
    pop_args,      \* the arguments of the populate_runs call
    pop_ret,       \* what populate_runs did: the run table's data and selected_rows
    sel,           \* the extract_selected_runs call: its selected_rows and result
    scan,          \* a scan in progress: the operation, its position and its locals
    changes,       \* how many times another process has modified the data root
    run_path,      \* the run directory parse_journal_file is given: its name and journal
    journal_ret,   \* what parse_journal_file returned
    run_table,     \* the run-table component of the page: its data and selected_rows
    event          \* the last event of the page

timeVars == <<time_str, time_ret>>
fileVars == <<file, parse_ret>>
rootVars == <<fs, base_dir, run_name>>
tableVars == <<pop_args, pop_ret, sel>>
scanVars == <<scan, changes>>
journalVars == <<run_path, journal_ret>>
pageVars == <<run_table, event>>

vars == <<timeVars, fileVars, rootVars, metrics_ret, runs_ret, tableVars, scanVars, journalVars, pageVars>>

----------------------------------------------------------------------------
(* Characters and Python's string primitives                               *)

\* One "character" of the model stands for a run of 400 zero digits, so that
\* a short sequence can spell an integer beyond the range of a double.
Zeros400 == "0{400}"

TAB == "\t"

\* The characters str.strip() removes (the line terminator is removed with
\* them; lines are kept without it).
Whitespace == {" ", TAB}

DecimalDigits == {"0", "1", "2", "3", "4", "5", "6", "7", "8", "9"}

DigitChars == DecimalDigits \cup {Zeros400}

DigitVal(c) ==
    CASE c = "0" -> 0 [] c = "1" -> 1 [] c = "2" -> 2 [] c = "3" -> 3
      [] c = "4" -> 4 [] c = "5" -> 5 [] c = "6" -> 6 [] c = "7" -> 7
      [] c = "8" -> 8 [] c = "9" -> 9 [] OTHER -> 0

Min(S) == CHOOSE x \in S : \A y \in S : x <= y

\* str.split(sep): cut at every occurrence of sep; always at least one part.
RECURSIVE Split(_, _)
Split(s, sep) ==
    LET at == {i \in 1..Len(s) : s[i] = sep}
    IN  IF at = {} THEN <<s>>
        ELSE <<SubSeq(s, 1, Min(at) - 1)>>
                 \o Split(SubSeq(s, Min(at) + 1, Len(s)), sep)

RECURSIVE LStrip(_)
LStrip(s) == IF s # <<>> /\ s[1] \in Whitespace THEN LStrip(Tail(s)) ELSE s

RECURSIVE RStrip(_)
RStrip(s) ==
    IF s # <<>> /\ s[Len(s)] \in Whitespace
    THEN RStrip(SubSeq(s, 1, Len(s) - 1)) ELSE s

\* str.strip()
Strip(s) == RStrip(LStrip(s))

\* sep.join(parts)
RECURSIVE Join(_, _)
Join(parts, sep) ==
    IF parts = <<>> THEN <<>>
    ELSE IF Len(parts) = 1 THEN parts[1]
    ELSE parts[1] \o <<sep>> \o Join(Tail(parts), sep)

----------------------------------------------------------------------------
(* Character codes, str.lower, comparison and search                       *)

\* The printable ASCII characters in code order: Ascii[i] has code i + 31
\* (the quote, the backslash and the backquote are spelled out).
Ascii ==
    << " ", "!", "(quote)", "#", "$", "%", "&", "'", "(", ")", "*", "+",
       ",", "-", ".", "/", "0", "1", "2", "3", "4", "5", "6", "7",
       "8", "9", ":", ";", "<", "=", ">", "?", "@", "A", "B", "C",
       "D", "E", "F", "G", "H", "I", "J", "K", "L", "M", "N", "O",
       "P", "Q", "R", "S", "T", "U", "V", "W", "X", "Y", "Z", "[",
       "(backslash)", "]", "^", "_", "(backquote)", "a", "b", "c", "d", "e", "f", "g",
       "h", "i", "j", "k", "l", "m", "n", "o", "p", "q", "r", "s",
       "t", "u", "v", "w", "x", "y", "z", "{", "|", "}", "~" >>

CharCode(c) ==
    IF c = TAB THEN 9
    ELSE 31 + (CHOOSE i \in 1..Len(Ascii) : Ascii[i] = c)

\* str.lower() of one character (ASCII).
LowerChar(c) ==
    IF c # TAB /\ c # Zeros400 /\ CharCode(c) >= 65 /\ CharCode(c) <= 90
    THEN Ascii[CharCode(c) + 32 - 31]
    ELSE c

\* str.lower()
Lower(s) == [i \in 1..Len(s) |-> LowerChar(s[i])]

\* a < b for strings: by character code at the first difference, a proper
\* prefix first.
RECURSIVE StrLess(_, _)
StrLess(a, b) ==
    IF b = <<>> THEN FALSE
    ELSE IF a = <<>> THEN TRUE
    ELSE IF a[1] = b[1] THEN StrLess(Tail(a), Tail(b))
    ELSE CharCode(a[1]) < CharCode(b[1])

\* sorted(names) of a set of distinct strings
RECURSIVE Sorted(_)
Sorted(S) ==
    IF S = {} THEN <<>>
    ELSE LET first == CHOOSE x \in S : \A y \in S \ {x} : StrLess(x, y)
         IN  <<first>> \o Sorted(S \ {first})

\* s.startswith(prefix)
StartsWith(s, prefix) ==
    Len(prefix) <= Len(s) /\ SubSeq(s, 1, Len(prefix)) = prefix

\* s.endswith(suffix)
EndsWith(s, suffix) ==
    Len(suffix) <= Len(s) /\ SubSeq(s, Len(s) - Len(suffix) + 1, Len(s)) = suffix

\* sub in s
Contains(sub, s) ==
    \E i \in 0..(Len(s) - Len(sub)) : SubSeq(s, i + 1, i + Len(sub)) = sub

\* s.replace(old, new) for one-character old and new
ReplaceChar(s, old, new) == [i \in 1..Len(s) |-> IF s[i] = old THEN new ELSE s[i]]

----------------------------------------------------------------------------
(* Python's int() and float() on a string                                  *)
(*                                                                         *)
(* An integer is [ok, big, v]: ok is whether the literal is accepted       *)
(* (otherwise ValueError), big is whether its magnitude is 10^400 or more  *)
(* (Python integers are unbounded; v is then not meaningful).  A float is  *)
(* [ok, k, n, d]: k = "fin" is the decimal n/d with d a power of ten and   *)
(* no common factor of ten, k = "inf" is +-infinity (n = 1 or -1, d = 1).  *)
(* Binary rounding is not modelled.  The literals are exact over digits,   *)
(* ".", "-", "+", "_", blanks and letters that start no literal; exponents *)
(* and the words inf and nan are never drawn as inputs.                    *)

\* Digits, with single underscores allowed between digits.
IsDigitRun(r) ==
    /\ r # <<>>
    /\ r[1] \in DigitChars
    /\ r[Len(r)] \in DigitChars
    /\ \A i \in 1..Len(r) : r[i] \in DigitChars \cup {"_"}
    /\ \A i \in 1..(Len(r) - 1) : ~(r[i] = "_" /\ r[i + 1] = "_")

\* The value of a digit run read left to right from the accumulator acc.
RECURSIVE RunValue(_, _)
RunValue(r, acc) ==
    IF r = <<>> THEN acc
    ELSE LET c == r[1]
             nxt == IF c = "_" THEN acc
                    ELSE IF c = Zeros400
                         THEN [big |-> acc.big \/ acc.v # 0, v |-> acc.v]
                    ELSE [big |-> acc.big, v |-> acc.v * 10 + DigitVal(c)]
         IN  RunValue(Tail(r), nxt)

Unsigned(t) == IF t # <<>> /\ t[1] \in {"-", "+"} THEN Tail(t) ELSE t

SignOf(t) == IF t # <<>> /\ t[1] = "-" THEN -1 ELSE 1

\* int(s)
ParseInt(s) ==
    LET t == Strip(s)
        body == Unsigned(t)
    IN  IF IsDigitRun(body)
        THEN LET r == RunValue(body, [big |-> FALSE, v |-> 0])
             IN  [ok |-> TRUE, big |-> r.big, v |-> SignOf(t) * r.v]
        ELSE [ok |-> FALSE, big |-> FALSE, v |-> 0]

\* The digits of a fraction that can change a double: those before a run of
\* 400 zeros (what follows is below 10^-400 and rounds away).
RECURSIVE FracDigits(_)
FracDigits(r) ==
    IF r = <<>> \/ r[1] = Zeros400 THEN <<>>
    ELSE IF r[1] = "_" THEN FracDigits(Tail(r))
    ELSE <<r[1]>> \o FracDigits(Tail(r))

RECURSIVE Pow10(_)
Pow10(k) == IF k = 0 THEN 1 ELSE 10 * Pow10(k - 1)

\* n/d without a common factor of ten.
RECURSIVE Reduce(_, _)
Reduce(n, d) ==
    IF d > 1 /\ n % 10 = 0 THEN Reduce(n \div 10, d \div 10)
    ELSE [n |-> n, d |-> d]

NoFloat == [ok |-> FALSE, k |-> "fin", n |-> 0, d |-> 1]

Fin(n, d) == LET r == Reduce(n, d) IN [ok |-> TRUE, k |-> "fin", n |-> r.n, d |-> r.d]

Inf(sign) == [ok |-> TRUE, k |-> "inf", n |-> sign, d |-> 1]

\* float(s)
ParseFloat(s) ==
    LET t == Strip(s)
        sign == SignOf(t)
        body == Unsigned(t)
        pieces == Split(body, ".")
        ip == pieces[1]
        fp == IF Len(pieces) = 2 THEN pieces[2] ELSE <<>>
        wellFormed ==
            /\ Len(pieces) <= 2
            /\ ip = <<>> \/ IsDigitRun(ip)
            /\ fp = <<>> \/ IsDigitRun(fp)
            /\ ip # <<>> \/ fp # <<>>
    IN  IF ~wellFormed THEN NoFloat
        ELSE LET iv == RunValue(ip, [big |-> FALSE, v |-> 0])
                 fd == FracDigits(fp)
                 fv == RunValue(fd, [big |-> FALSE, v |-> 0])
                 d  == Pow10(Len(fd))
             IN  IF iv.big THEN Inf(sign)
                 ELSE Fin(sign * (iv.v * d + fv.v), d)

----------------------------------------------------------------------------
(* The Time Codec: parse_time_to_seconds                                   *)

NotCalled == [tag |-> "notcalled", k |-> "fin", n |-> 0, d |-> 1]
None      == [tag |-> "none", k |-> "fin", n |-> 0, d |-> 1]
Raised    == [tag |-> "raise", k |-> "fin", n |-> 0, d |-> 1]

Value(f) == [tag |-> "value", k |-> f.k, n |-> f.n, d |-> f.d]

\* int + float: the integer is converted to a double first, which raises
\* OverflowError when it is out of range.
IntPlusFloat(i, big, f) ==
    IF big THEN Raised
    ELSE IF f.k = "inf" THEN Value(f)
    ELSE Value(Fin(i * f.d + f.n, f.d))

\* try: parts = split(':'); int(parts[0]); int(parts[1]); float(parts[2])
\* except (ValueError, IndexError): return None
parse_time_to_seconds(s) ==
    LET parts == Split(s, ":")
    IN  IF Len(parts) < 1 THEN None
        ELSE LET hours == ParseInt(parts[1])
             IN  IF ~hours.ok THEN None                     \* ValueError
                 ELSE IF Len(parts) < 2 THEN None           \* IndexError
                 ELSE LET minutes == ParseInt(parts[2])
                      IN  IF ~minutes.ok THEN None          \* ValueError
                          ELSE IF Len(parts) < 3 THEN None  \* IndexError
                          ELSE LET seconds == ParseFloat(parts[3])
                               IN  IF ~seconds.ok THEN None \* ValueError
                                   ELSE IntPlusFloat(
                                            hours.v * 3600 + minutes.v * 60,
                                            hours.big \/ minutes.big,
                                            seconds)

----------------------------------------------------------------------------
(* The Journal Metadata Extractor: parse_journal_file                      *)
(*                                                                         *)
(* A journal is [present, lines, fail_after]: present is whether           *)
(* journal.txt exists in the run directory, lines are its lines, and       *)
(* fail_after is -1 when the file reads to its end, or the number of lines *)
(* the loop consumes before open() or the read raises.                     *)

EmptyMetadata ==
    [procedure_name |-> <<>>, log_name |-> <<>>, sample_name |-> <<>>,
     vial_position |-> <<>>, date_time |-> <<>>]

KeyName == <<"P", "r", "o", "c", "e", "d", "u", "r", "e", ".", "N", "a", "m", "e", ":">>
KeyLogname == <<"P", "r", "o", "c", "e", "d", "u", "r", "e", ".", "L", "o", "g", "n", "a", "m", "e", ":">>
KeySamplename == <<"P", "r", "o", "c", "e", "d", "u", "r", "e", ".", "S", "a", "m", "p", "l", "e", "n", "a", "m", "e", ":">>
KeyVialposition == <<"P", "r", "o", "c", "e", "d", "u", "r", "e", ".", "V", "i", "a", "l", "p", "o", "s", "i", "t", "i", "o", "n", ":">>

\* line.split(':', 1)[1].strip(), for a line that holds a colon
AfterFirstColon(line) ==
    LET at == Min({i \in 1..Len(line) : line[i] = ":"})
    IN  Strip(SubSeq(line, at + 1, Len(line)))

\* The loop's pass with the line matched as it stands in the file.
JournalLine_Untrimmed(raw, metadata) ==
    LET line == raw
    IN  IF StartsWith(line, KeyName)
        THEN [metadata EXCEPT !.procedure_name = AfterFirstColon(line)]
        ELSE IF StartsWith(line, KeyLogname)
        THEN [metadata EXCEPT !.log_name = AfterFirstColon(line)]
        ELSE IF StartsWith(line, KeySamplename)
        THEN [metadata EXCEPT !.sample_name = AfterFirstColon(line)]
        ELSE IF StartsWith(line, KeyVialposition)
        THEN [metadata EXCEPT !.vial_position = AfterFirstColon(line)]
        ELSE metadata

\* One pass of the loop over the journal's lines.
JournalLine(raw, metadata) ==
    LET line == Strip(raw)
    IN  IF StartsWith(line, KeyName)
        THEN [metadata EXCEPT !.procedure_name = AfterFirstColon(line)]
        ELSE IF StartsWith(line, KeyLogname)
        THEN [metadata EXCEPT !.log_name = AfterFirstColon(line)]
        ELSE IF StartsWith(line, KeySamplename)
        THEN [metadata EXCEPT !.sample_name = AfterFirstColon(line)]
        ELSE IF StartsWith(line, KeyVialposition)
        THEN [metadata EXCEPT !.vial_position = AfterFirstColon(line)]
        ELSE metadata

RECURSIVE JournalLines(_, _)
JournalLines(lines, metadata) ==
    IF lines = <<>> THEN metadata
    ELSE JournalLines(Tail(lines), JournalLine(lines[1], metadata))

\* The lines the loop consumes before the read ends or raises (the
\* exception is caught and printed).
LinesRead(journal) ==
    IF journal.fail_after = -1 THEN journal.lines
    ELSE SubSeq(journal.lines, 1, journal.fail_after)

\* The date and time taken from the second and third '_' tokens.
FolderDateTime_FromSecondToken(folder_name) ==
    LET parts == Split(folder_name, "_")
    IN  IF Len(parts) >= 3
        THEN parts[2] \o <<" ">> \o ReplaceChar(parts[3], "-", ":")
        ELSE <<>>

\* The date and time from the folder name: the last two '_' tokens.
FolderDateTime(folder_name) ==
    LET parts == Split(folder_name, "_")
    IN  IF Len(parts) >= 3
        THEN parts[Len(parts) - 1] \o <<" ">>
                 \o ReplaceChar(parts[Len(parts)], "-", ":")
        ELSE <<>>

parse_journal_file(folder_name, journal) ==
    LET read == IF journal.present
                THEN JournalLines(LinesRead(journal), EmptyMetadata)
                ELSE EmptyMetadata
    IN  IF read.date_time = <<>>
        THEN [read EXCEPT !.date_time = FolderDateTime(folder_name)]
        ELSE read

----------------------------------------------------------------------------
(* The data root                                                           *)
(*                                                                         *)
(* The file system under the data root is [kind, entries]: kind is         *)
(* "missing", "file" or "dir"; entries maps each name in the root to       *)
(* [is_dir, journal, files], files being the names in that directory other *)
(* than journal.txt.  A base_dir is "None" or "root" (a Path to the root). *)

\* base_dir.exists()
Exists(tree) == tree.kind # "missing"

\* (base_dir / name).is_dir()
IsRunDir(tree, name) ==
    tree.kind = "dir" /\ name \in DOMAIN tree.entries /\ tree.entries[name].is_dir

\* The record get_available_runs appends for a run directory.
RunRecordOf(name, journal) ==
    LET metadata == parse_journal_file(name, journal)
    IN  [name |-> name,
         procedure |-> metadata.procedure_name,
         sample |-> metadata.sample_name,
         vial |-> metadata.vial_position,
         datetime |-> metadata.date_time]

RunRecord(tree, name) == RunRecordOf(name, tree.entries[name].journal)

RECURSIVE RunsOf(_, _)
RunsOf(tree, items) ==
    IF items = <<>> THEN <<>>
    ELSE (IF IsRunDir(tree, items[1]) THEN <<RunRecord(tree, items[1])>> ELSE <<>>)
             \o RunsOf(tree, Tail(items))

\* The result is [raised, runs]: raised is an exception leaving the function.
\* iterdir() lists the root with os.listdir, which raises NotADirectoryError
\* on a regular file.
get_available_runs(tree, base) ==
    IF base # "None" /\ Exists(tree)
    THEN IF tree.kind # "dir"
         THEN [raised |-> TRUE, runs |-> <<>>]
         ELSE [raised |-> FALSE, runs |-> RunsOf(tree, Sorted(DOMAIN tree.entries))]
    ELSE [raised |-> FALSE, runs |-> <<>>]

----------------------------------------------------------------------------
(* The Metric Indexer: get_metrics_for_run                                 *)

PumpPrefix == <<"P", "u", "m", "p", "-">>
TxtSuffix == <<".", "t", "x", "t">>

\* Path.glob("Pump-*.txt") on one name (case-sensitive)
GlobMatches(name) ==
    /\ StartsWith(name, PumpPrefix)
    /\ EndsWith(name, TxtSuffix)
    /\ Len(name) >= Len(PumpPrefix) + Len(TxtSuffix)

\* Path.stem: the name up to its last dot, unless that dot is the first or
\* the last character.
Stem(name) ==
    LET dots == {i \in 1..Len(name) : name[i] = "."}
        last == CHOOSE i \in dots : \A j \in dots : j <= i
    IN  IF dots # {} /\ last > 1 /\ last < Len(name)
        THEN SubSeq(name, 1, last - 1)
        ELSE name

NoMetrics == [pump \in {} |-> <<>>]

\* AddMetric with the metric name taken from the second token alone.
AddMetric_SecondTokenOnly(file_name, metrics) ==
    LET parts == Split(Stem(file_name), "_")
        pump == parts[1]
        item == [name |-> parts[2], filename |-> file_name]
    IN  IF Len(parts) >= 2
        THEN [p \in DOMAIN metrics \cup {pump} |->
                 IF p \in DOMAIN metrics
                 THEN IF p = pump THEN Append(metrics[p], item) ELSE metrics[p]
                 ELSE <<item>>]
        ELSE metrics

\* One pass of the loop over the sorted matching files.
AddMetric(file_name, metrics) ==
    LET parts == Split(Stem(file_name), "_")
        pump == parts[1]
        item == [name |-> Join(Tail(parts), "_"), filename |-> file_name]
    IN  IF Len(parts) >= 2
        THEN [p \in DOMAIN metrics \cup {pump} |->
                 IF p \in DOMAIN metrics
                 THEN IF p = pump THEN Append(metrics[p], item) ELSE metrics[p]
                 ELSE <<item>>]
        ELSE metrics

RECURSIVE AddMetrics(_, _)
AddMetrics(file_names, metrics) ==
    IF file_names = <<>> THEN metrics
    ELSE AddMetrics(Tail(file_names), AddMetric(file_names[1], metrics))

\* The mapping of a directory's file names.
MetricsOfFiles(names) ==
    AddMetrics(Sorted({n \in names : GlobMatches(n)}), NoMetrics)

MetricsNotCalled == [called |-> FALSE, metrics |-> NoMetrics]

get_metrics_for_run(tree, base, run) ==
    IF base = "None" THEN NoMetrics
    ELSE IF ~IsRunDir(tree, run) THEN NoMetrics
    ELSE MetricsOfFiles(tree.entries[run].files)

----------------------------------------------------------------------------
(* The Run Catalog: extract_selected_runs and the populate_runs callback   *)
(*                                                                         *)
(* A selection is [none, rows]: none is Python's None, rows the list; an   *)
(* element of the list is [int, v], int telling whether it is an int (its  *)
(* value v, counted from 0) or something else.  A filter value is          *)
(* [given, text]: given is FALSE for None.                                 *)

Idx(i) == [int |-> TRUE, v |-> i]

\* SelectedNames without the test 0 <= idx: a negative index counts from
\* the end of the list, as Python's indexing does.
RECURSIVE SelectedNames_NegativeIndex(_, _)
SelectedNames_NegativeIndex(run_table_data, rows) ==
    IF rows = <<>> THEN <<>>
    ELSE LET idx == rows[1]
             n == Len(run_table_data)
         IN  (IF idx.int /\ -n <= idx.v /\ idx.v < n
              THEN <<run_table_data[IF idx.v >= 0 THEN idx.v + 1 ELSE n + idx.v + 1].folder>>
              ELSE <<>>)
                 \o SelectedNames_NegativeIndex(run_table_data, Tail(rows))

\* The loop over selected_rows: the folders of the valid indices, in order.
RECURSIVE SelectedNames(_, _)
SelectedNames(run_table_data, rows) ==
    IF rows = <<>> THEN <<>>
    ELSE LET idx == rows[1]
         IN  (IF idx.int /\ 0 <= idx.v /\ idx.v < Len(run_table_data)
              THEN <<run_table_data[idx.v + 1].folder>> ELSE <<>>)
                 \o SelectedNames(run_table_data, Tail(rows))

\* extract_selected_runs without the fall-back to the first row.
extract_selected_runs_NoFallback(run_table_data, selected_rows) ==
    IF run_table_data = <<>> THEN <<>>
    ELSE SelectedNames(run_table_data,
                       IF selected_rows.none THEN <<>> ELSE selected_rows.rows)

extract_selected_runs(run_table_data, selected_rows) ==
    IF run_table_data = <<>> THEN <<>>
    ELSE LET rows == IF selected_rows.none THEN <<>> ELSE selected_rows.rows
             selected_names == SelectedNames(run_table_data, rows)
         IN  IF selected_names # <<>> THEN selected_names
             ELSE <<run_table_data[1].folder>>

\* if value: (neither None nor the empty string)
Truthy(value) == value.given /\ value.text # <<>>

\* FilterBy without the lower-casing.
FilterBy_CaseSensitive(runs, term, field) ==
    IF Truthy(term)
    THEN LET Keep(r) == Contains(term.text, r[field])
         IN  SelectSeq(runs, Keep)
    ELSE runs

\* [r for r in runs if term.lower() in r[field].lower()], when term is truthy
FilterBy(runs, term, field) ==
    IF Truthy(term)
    THEN LET Keep(r) == Contains(Lower(term.text), Lower(r[field]))
         IN  SelectSeq(runs, Keep)
    ELSE runs

FilterRuns(runs, search_term, procedure_filter, sample_filter, vial_filter) ==
    FilterBy(FilterBy(FilterBy(FilterBy(runs, search_term, "name"),
                               procedure_filter, "procedure"),
                      sample_filter, "sample"),
             vial_filter, "vial")

TableRow(run) ==
    [folder |-> run.name, datetime |-> run.datetime, procedure |-> run.procedure,
     sample |-> run.sample, vial |-> run.vial]

\* The components whose change calls populate_runs; "" is the first call,
\* when the page loads (its prop_id is ".").
TriggerIds ==
    {"", "data-root-store", "refresh-runs-btn", "run-search", "procedure-filter",
     "sample-filter", "vial-filter", "select-all-runs-btn", "clear-runs-btn"}

SelectedRowsFor(trigger, table_data) ==
    IF trigger = "select-all-runs-btn"
    THEN [i \in 1..Len(table_data) |-> Idx(i - 1)]        \* list(range(len))
    ELSE IF trigger = "clear-runs-btn" THEN <<>>
    ELSE IF table_data # <<>> THEN <<Idx(0)>> ELSE <<>>

\* args is [data_root, search_term, procedure_filter, sample_filter,
\* vial_filter, trigger]; data_root is "" or "root".  The result is
\* [called, raised, table_data, selected_rows].
populate_runs(tree, args) ==
    LET base == IF args.data_root # "" THEN "root" ELSE "None"
        got == get_available_runs(tree, base)
        filtered_runs == FilterRuns(got.runs, args.search_term, args.procedure_filter,
                                    args.sample_filter, args.vial_filter)
        table_data == [i \in 1..Len(filtered_runs) |-> TableRow(filtered_runs[i])]
    IN  IF got.raised
        THEN [called |-> TRUE, raised |-> TRUE, table_data |-> <<>>,
              selected_rows |-> <<>>]
        ELSE [called |-> TRUE, raised |-> FALSE, table_data |-> table_data,
              selected_rows |-> SelectedRowsFor(args.trigger, table_data)]

PopulateNotCalled ==
    [called |-> FALSE, raised |-> FALSE, table_data |-> <<>>, selected_rows |-> <<>>]

----------------------------------------------------------------------------
(* Inputs of the time codec                                                *)

\* The most colon-delimited parts a drawn time string has.
MaxTimeParts == 4

\* What one colon-delimited part can be: integers, a blank-padded integer,
\* a negative one, decimals, an empty part, a word, and 10^400.
TimeParts ==
    { <<"1">>, <<"0", "2">>, <<" ", "3">>, <<"-", "1">>, <<"1", ".", "5">>,
      <<>>, <<"x">>, <<"1", Zeros400>> }

RECURSIVE SeqsUpTo(_, _)
SeqsUpTo(S, k) ==
    IF k = 0 THEN {<<>>}
    ELSE LET shorter == SeqsUpTo(S, k - 1)
         IN  shorter \cup {Append(q, x) : q \in {p \in shorter : Len(p) = k - 1}, x \in S}

TimeStrings ==
    {Join(ps, ":") : ps \in {q \in SeqsUpTo(TimeParts, MaxTimeParts) : q # <<>>}}

----------------------------------------------------------------------------
(* The Trace File Parser: parse_data_file                                  *)
(*                                                                         *)
(* A file is [readable, lines]: readable is whether open() and readlines() *)
(* succeed (a missing file, a permission error and a decoding error all    *)
(* raise inside the try block), lines are its lines without terminators.   *)

Unknown == <<"U", "n", "k", "n", "o", "w", "n">>

ParseNotCalled == [tag |-> "notcalled", times |-> <<>>, values |-> <<>>, label |-> <<>>]
NoData         == [tag |-> "nodata", times |-> <<>>, values |-> <<>>, label |-> <<>>]
ParseRaised    == [tag |-> "raise", times |-> <<>>, values |-> <<>>, label |-> <<>>]

Series(times, values, label) ==
    [tag |-> "series", times |-> times, values |-> values, label |-> label]

\* header = lines[0].strip().split('\t'); header[1] if len(header) > 1 else "Unknown"
MetricInfo(first_line) ==
    LET header == Split(Strip(first_line), TAB)
    IN  IF Len(header) > 1 THEN header[2] ELSE Unknown

\* One pass of the loop over lines[1:], from the accumulator acc =
\* [raised, times, values]; raised is an exception the loop does not catch.
ParseRow(line, acc) ==
    LET stripped == Strip(line)
        parts == Split(stripped, TAB)
    IN  IF stripped = <<>> THEN acc                          \* continue
        ELSE IF Len(parts) < 2 THEN acc
        ELSE LET time_seconds == parse_time_to_seconds(parts[1])
                 value == ParseFloat(parts[2])
             IN  IF time_seconds.tag = "raise"
                 THEN [acc EXCEPT !.raised = TRUE]
                 ELSE IF time_seconds = None THEN acc
                 ELSE IF ~value.ok THEN acc                  \* ValueError: continue
                 ELSE [acc EXCEPT !.times = Append(@, time_seconds),
                                  !.values = Append(@, value)]

EmptyAcc == [raised |-> FALSE, times |-> <<>>, values |-> <<>>]

RECURSIVE ParseRows(_, _)
ParseRows(rows, acc) ==
    IF rows = <<>> \/ acc.raised THEN acc
    ELSE ParseRows(Tail(rows), ParseRow(rows[1], acc))

parse_data_file(f) ==
    IF ~f.readable THEN NoData                               \* except Exception
    ELSE IF Len(f.lines) < 2 THEN NoData
    ELSE LET metric_info == MetricInfo(f.lines[1])
             r == ParseRows(Tail(f.lines), EmptyAcc)
         IN  IF r.raised THEN NoData                         \* except Exception
             ELSE IF r.times # <<>> /\ r.values # <<>>
                  THEN Series(r.times, r.values, metric_info)
                  ELSE NoData

----------------------------------------------------------------------------
(* Inputs of the trace file parser                                         *)

\* The most data rows (lines after the header) a drawn file has.
MaxRows == 2

Row(fields) == Join(fields, TAB)

T1 == <<"0", ":", "0", ":", "1">>
T2 == <<"0", ":", "0", ":", "2">>
THuge == <<"1", Zeros400, ":", "0", ":", "0">>
V1 == <<"1", ".", "5">>
V2 == <<"2">>
Word == <<"x">>
Label == <<"P">>

\* Header lines: two fields, one field, an empty first field, a blank first
\* field, an empty line.
Headers ==
    { Row(<<Word, Label>>), Word, Row(<<<<>>, Label>>), Row(<<<<" ">>, Label>>), <<>> }

\* Data rows: two good rows, a later time first, a bad value, a bad time, a
\* blank and a whitespace-only line, a one-field row, a row that starts with
\* a tab, a row with a third field, and a row whose hours exceed a double.
Rows ==
    { Row(<<T2, V1>>), Row(<<T1, V2>>), Row(<<T1, Word>>), Row(<<Word, V1>>),
      <<>>, <<" ">>, T1, Row(<<<<>>, T1, V2>>), Row(<<T1, V1, Word>>),
      Row(<<THuge, V1>>) }

NoFile == [readable |-> FALSE, lines |-> <<>>]

Files ==
    {NoFile}
      \cup {[readable |-> TRUE, lines |-> <<>>]}
      \cup {[readable |-> TRUE, lines |-> <<h>> \o rs] :
                h \in Headers, rs \in SeqsUpTo(Rows, MaxRows)}

----------------------------------------------------------------------------
(* Inputs of the metric indexer                                            *)

\* The most files a drawn run directory holds.
MaxFiles == 3

\* File names: two pumps, a metric of two tokens, upper and lower case, an
\* empty metric, a stem of one token, another extension, a lower-case
\* prefix and an unrelated file.
FileNames ==
    { <<"P", "u", "m", "p", "-", "A", "_", "p", ".", "t", "x", "t">>, <<"P", "u", "m", "p", "-", "A", "_", "f", "_", "x", ".", "t", "x", "t">>, <<"P", "u", "m", "p", "-", "B", "_", "p", ".", "t", "x", "t">>, <<"P", "u", "m", "p", "-", "A", "_", "P", ".", "t", "x", "t">>,
      <<"P", "u", "m", "p", "-", "A", "_", ".", "t", "x", "t">>, <<"P", "u", "m", "p", "-", "A", ".", "t", "x", "t">>, <<"P", "u", "m", "p", "-", "A", "_", "p", ".", "c", "s", "v">>, <<"p", "u", "m", "p", "-", "A", "_", "q", ".", "t", "x", "t">>, <<"x", ".", "t", "x", "t">> }

RunR == <<"r">>
RunOther == <<"q">>

NoJournal == [present |-> FALSE, lines |-> <<>>, fail_after |-> -1]

Directory(files) == [is_dir |-> TRUE, journal |-> NoJournal, files |-> files]

PlainFile == [is_dir |-> FALSE, journal |-> NoJournal, files |-> {}]

MissingRoot == [kind |-> "missing", entries |-> <<>>]
FileRoot == [kind |-> "file", entries |-> <<>>]

DirRoot(entries) == [kind |-> "dir", entries |-> entries]

\* A root whose run directory r holds the given files, beside a plain file q.
MetricRoots ==
    { DirRoot([n \in {RunR, RunOther} |->
                  IF n = RunR THEN Directory(files) ELSE PlainFile]) :
        files \in {F \in SUBSET FileNames : Cardinality(F) <= MaxFiles} }

----------------------------------------------------------------------------
(* Inputs of the run catalog                                               *)

\* The most entries a drawn data root holds.
MaxEntries == 3

Journal(lines, fail_after) ==
    [present |-> TRUE, lines |-> lines, fail_after |-> fail_after]

RunDir(journal) == [is_dir |-> TRUE, journal |-> journal, files |-> {}]

RunA == <<"A", "b", "_", "1">>
RunB == <<"a", "b", "_", "x", "_", "2", "-", "3">>
RunC == <<"c">>
RunE == <<"B">>
FileD == <<"a", ".", "t", "x", "t">>

\* What the root can hold: three runs with journals (one whose read fails
\* after its first line), a run without a journal, and a plain file.
EntryOf(name) ==
    CASE name = RunA ->
           RunDir(Journal(<< <<"P", "r", "o", "c", "e", "d", "u", "r", "e", ".", "N", "a", "m", "e", ":", " ", "Q", "c">>, <<"P", "r", "o", "c", "e", "d", "u", "r", "e", ".", "S", "a", "m", "p", "l", "e", "n", "a", "m", "e", ":", " ", "s", "1">>,
                             <<"P", "r", "o", "c", "e", "d", "u", "r", "e", ".", "V", "i", "a", "l", "p", "o", "s", "i", "t", "i", "o", "n", ":", " ", "B", "2">> >>, -1))
      [] name = RunB ->
           RunDir(Journal(<< <<"P", "r", "o", "c", "e", "d", "u", "r", "e", ".", "N", "a", "m", "e", ":", "q", "C", " ", "x">>, <<" ", "P", "r", "o", "c", "e", "d", "u", "r", "e", ".", "S", "a", "m", "p", "l", "e", "n", "a", "m", "e", ":", " ", "S", "1", "2", " ">>,
                             <<"n", "o", "t", "e", ":", " ", "b">> >>, -1))
      [] name = RunE ->
           RunDir(Journal(<< <<"P", "r", "o", "c", "e", "d", "u", "r", "e", ".", "N", "a", "m", "e", ":", " ", "p">>, <<"P", "r", "o", "c", "e", "d", "u", "r", "e", ".", "V", "i", "a", "l", "p", "o", "s", "i", "t", "i", "o", "n", ":", " ", "B", "9">> >>, 1))
      [] name = RunC -> RunDir(NoJournal)
      [] OTHER -> PlainFile

EntryNames == {RunA, RunB, RunC, RunE, FileD}

RootOf(names) == DirRoot([n \in names |-> EntryOf(n)])

CatalogRoots ==
    {MissingRoot, FileRoot}
      \cup {RootOf(names) : names \in {N \in SUBSET EntryNames : Cardinality(N) <= MaxEntries}}

NotGiven == [given |-> FALSE, text |-> <<>>]
Text(t) == [given |-> TRUE, text |-> t]

Args(data_root, search_term, procedure_filter, sample_filter, vial_filter, trigger) ==
    [data_root |-> data_root, search_term |-> search_term,
     procedure_filter |-> procedure_filter, sample_filter |-> sample_filter,
     vial_filter |-> vial_filter, trigger |-> trigger]

NoArgs == Args("", NotGiven, NotGiven, NotGiven, NotGiven, "")

\* The filter values drawn for each criterion: None, the empty string, and
\* texts that differ from the fields in case, match several runs, match one
\* or match none.
SearchTerms == {NotGiven, Text(<<>>), Text(<<"A", "B">>), Text(<<"_">>), Text(<<"z", "z">>)}
ProcedureFilters == {NotGiven, Text(<<"q", "c">>), Text(<<"X">>)}
SampleFilters == {NotGiven, Text(<<"s", "1">>), Text(<<"1", "2">>)}
VialFilters == {NotGiven, Text(<<>>), Text(<<"b">>)}

FilterArgs ==
    {Args("root", s, p, m, v, t) :
        s \in SearchTerms, p \in ProcedureFilters, m \in SampleFilters,
        v \in VialFilters, t \in {"run-search", "vial-filter"}}

\* The most entries a drawn selected_rows has.
MaxSelected == 2

\* The entries of a drawn selected_rows: indices in and out of range, and
\* something that is not an int.
RowEntries == {Idx(-1), Idx(0), Idx(1), Idx(2), [int |-> FALSE, v |-> 0]}

NoneSelection == [none |-> TRUE, rows |-> <<>>]

Selections ==
    {NoneSelection}
      \cup {[none |-> FALSE, rows |-> r] : r \in SeqsUpTo(RowEntries, MaxSelected)}

SelectRoots == {FileRoot} \cup {RootOf(names) : names \in SUBSET {RunA, RunC, FileD}}

SelectArgs ==
    {Args(d, s, NotGiven, NotGiven, NotGiven, t) :
        d \in {"", "root"}, s \in {NotGiven, Text(<<"z", "z">>)}, t \in TriggerIds}

SelNotCalled == [called |-> FALSE, selected_rows |-> NoneSelection, ret |-> <<>>]

RunsNotCalled == [called |-> FALSE, raised |-> FALSE, runs |-> <<>>]

----------------------------------------------------------------------------
(* A scan step by step, while another process modifies the data root       *)
(*                                                                         *)
(* Each system call of a scan is one step, and the data root can change    *)
(* between two steps.  A scan is [op, pc, items, i, runs, metrics, data,   *)
(* raised]: op is the operation ("runs": get_available_runs, "metrics":    *)
(* get_metrics_for_run, "data": update_plot's check of a metric file       *)
(* followed by parse_data_file), pc the next step, items and i the sorted  *)
(* listing and the position in it, runs, metrics and data the results, and *)
(* raised whether an exception left the operation.                         *)

\* The most modifications by another process during one scan.
MaxChanges == 2

NoScan ==
    [op |-> "none", pc |-> "done", items |-> <<>>, i |-> 0, runs |-> <<>>,
     metrics |-> NoMetrics, data |-> ParseNotCalled, raised |-> FALSE]

StartOf(op) ==
    [NoScan EXCEPT !.op = op,
                   !.pc = CASE op = "runs" -> "exists"
                            [] op = "metrics" -> "check"
                            [] OTHER -> "file_exists"]

\* The run directory r with one metric file, beside the run Ab_1 with its
\* journal.
ScanRoot ==
    DirRoot([n \in {RunA, RunR} |->
                IF n = RunR THEN Directory({<<"P", "u", "m", "p", "-", "A", "_", "p", ".", "t", "x", "t">>}) ELSE EntryOf(n)])

ScanFile == [readable |-> TRUE, lines |-> <<Row(<<Word, Label>>), Row(<<T1, V1>>), Row(<<T2, V2>>)>>]

\* A journal whose open() raises.
GoneJournal == [present |-> TRUE, lines |-> <<>>, fail_after |-> 0]

\* What open(journal_path) finds now.
JournalNow(name) ==
    IF IsRunDir(fs, name) /\ fs.entries[name].journal.present
    THEN fs.entries[name].journal
    ELSE GoneJournal

----------------------------------------------------------------------------
(* The inputs of the journal extractor                                     *)

\* The most lines of a journal.
MaxJournalLines == 2

\* Lines of a journal, without their line ends: the four keys, a key after
\* leading blanks, a value that holds a colon and trailing blanks, a key
\* without its colon, a key in another letter case and an unknown key.
JournalTexts ==
    { <<"P", "r", "o", "c", "e", "d", "u", "r", "e", ".", "N", "a", "m", "e", ":", " ", "Q", "c">>,
      <<" ", " ", "P", "r", "o", "c", "e", "d", "u", "r", "e", ".", "N", "a", "m", "e", ":", " ", "x">>,
      <<"P", "r", "o", "c", "e", "d", "u", "r", "e", ".", "N", "a", "m", "e", ":", "a", ":", "b", " ">>,
      <<"P", "r", "o", "c", "e", "d", "u", "r", "e", ".", "L", "o", "g", "n", "a", "m", "e", ":", " ", "L">>,
      <<"P", "r", "o", "c", "e", "d", "u", "r", "e", ".", "S", "a", "m", "p", "l", "e", "n", "a", "m", "e", ":", " ", "Q", "C", "0", "1">>,
      <<"P", "r", "o", "c", "e", "d", "u", "r", "e", ".", "V", "i", "a", "l", "p", "o", "s", "i", "t", "i", "o", "n", ":", " ", "B", "2">>,
      <<"P", "r", "o", "c", "e", "d", "u", "r", "e", ".", "N", "a", "m", "e">>,
      <<"p", "r", "o", "c", "e", "d", "u", "r", "e", ".", "n", "a", "m", "e", ":", " ", "z">>,
      <<"N", "o", "t", "e", ":", " ", "n">> }

\* A journal that reads to its end, or whose read raises after n lines
\* (0: open() raises).
Journals ==
    {NoJournal}
      \cup UNION { { Journal(lines, fail_after) :
                        fail_after \in {-1, 0} \cup 0..(Len(lines) - 1) } :
                    lines \in SeqsUpTo(JournalTexts, MaxJournalLines) }

\* Names of run directories, of 1 to 4 '_' tokens.
FolderNames ==
    { <<"2", "0", "0", "_", "2", "5", "-", "1", "2", "_", "1", "2", "-", "2", "7">>,
      <<"x", "_", "a", "_", "b", "_", "1", "-", "2">>,
      <<"a", "_", "_", "b">>,
      <<"a", "_", "b">>,
      <<"c">> }

RunPath(name, journal) == [name |-> name, journal |-> journal]

NoRunPath == RunPath(<<>>, NoJournal)

JournalNotCalled == [called |-> FALSE, metadata |-> EmptyMetadata]

----------------------------------------------------------------------------
(* The page: the run table over a sequence of events                       *)
(*                                                                         *)
(* populate_runs is called when the page loads and again whenever one of   *)
(* its inputs changes, with the current value of every input; what it      *)
(* returns becomes the data and the selected_rows of the run table.  When  *)
(* it raises, the table keeps what it had.  Between two calls the user can *)
(* pick rows in the table and another process can change the data root.    *)

\* The run table as the layout creates it: data=[], selected_rows=[].
EmptyTable == [data |-> <<>>, selected_rows |-> <<>>]

\* The values the filter inputs take.
PageSearchTerms == {NotGiven, Text(<<"_">>)}
PageProcedureFilters == {NotGiven, Text(<<"q", "c">>)}
PageSampleFilters == {NotGiven, Text(<<"s", "1">>)}
PageVialFilters == {NotGiven, Text(<<"b">>)}

\* The data roots of the page: directories of up to two runs.
PageRoots == {RootOf(names) : names \in SUBSET {RunA, RunC}}

\* The indices of S in increasing order.
RECURSIVE Ascending(_)
Ascending(S) ==
    IF S = {} THEN <<>>
    ELSE <<Idx(Min(S))>> \o Ascending(S \ {Min(S)})

----------------------------------------------------------------------------
(* The specifications: each draws the inputs of one component and applies  *)
(* the component's operations to them; the other components stay idle.     *)

IdleTime == time_str = <<>> /\ time_ret = NotCalled
IdleFile == file = NoFile /\ parse_ret = ParseNotCalled
IdleRoot == fs = MissingRoot /\ base_dir = "None" /\ run_name = <<>>
IdleMetrics == metrics_ret = MetricsNotCalled
IdleCatalog == runs_ret = RunsNotCalled
IdleTable == pop_args = NoArgs /\ pop_ret = PopulateNotCalled /\ sel = SelNotCalled
IdleScan == scan = NoScan /\ changes = 0
IdleJournal == run_path = NoRunPath /\ journal_ret = JournalNotCalled
IdlePage == run_table = EmptyTable /\ event = "none"

\* The time codec on one string.
InitTime ==
    /\ time_str \in TimeStrings
    /\ time_ret = NotCalled
    /\ IdleFile /\ IdleRoot /\ IdleMetrics /\ IdleCatalog /\ IdleTable /\ IdleScan /\ IdleJournal /\ IdlePage

CallParseTime ==
    /\ time_ret = NotCalled
    /\ time_ret' = parse_time_to_seconds(time_str)
    /\ UNCHANGED <<time_str, fileVars, rootVars, metrics_ret, runs_ret, tableVars, scanVars, journalVars, pageVars>>

NextTime == CallParseTime

SpecTime == InitTime /\ [][NextTime]_vars

\* The trace file parser on one file.
InitFile ==
    /\ file \in Files
    /\ parse_ret = ParseNotCalled
    /\ IdleTime /\ IdleRoot /\ IdleMetrics /\ IdleCatalog /\ IdleTable /\ IdleScan /\ IdleJournal /\ IdlePage

CallParseDataFile ==
    /\ parse_ret = ParseNotCalled
    /\ parse_ret' = parse_data_file(file)
    /\ UNCHANGED <<file, timeVars, rootVars, metrics_ret, runs_ret, tableVars, scanVars, journalVars, pageVars>>

NextFile == CallParseDataFile

SpecFile == InitFile /\ [][NextFile]_vars

\* The metric indexer on one run directory.
InitMetrics ==
    /\ fs \in MetricRoots \cup {MissingRoot, FileRoot}
    /\ base_dir \in {"None", "root"}
    /\ run_name \in {RunR, RunOther, <<"z", "z">>}
    /\ metrics_ret = MetricsNotCalled
    /\ IdleTime /\ IdleFile /\ IdleCatalog /\ IdleTable /\ IdleScan /\ IdleJournal /\ IdlePage

CallGetMetricsForRun ==
    /\ metrics_ret = MetricsNotCalled
    /\ metrics_ret' = [called |-> TRUE,
                       metrics |-> get_metrics_for_run(fs, base_dir, run_name)]
    /\ UNCHANGED <<timeVars, fileVars, rootVars, runs_ret, tableVars, scanVars, journalVars, pageVars>>

NextMetrics == CallGetMetricsForRun

SpecMetrics == InitMetrics /\ [][NextMetrics]_vars

\* The run catalog on one data root, nothing else touching the root.
InitCatalog ==
    /\ fs \in CatalogRoots
    /\ base_dir \in {"None", "root"}
    /\ run_name = <<>>
    /\ runs_ret = RunsNotCalled
    /\ IdleTime /\ IdleFile /\ IdleMetrics /\ IdleTable /\ IdleScan /\ IdleJournal /\ IdlePage

CallGetAvailableRuns ==
    /\ ~runs_ret.called
    /\ runs_ret' = LET got == get_available_runs(fs, base_dir)
                   IN  [called |-> TRUE, raised |-> got.raised, runs |-> got.runs]
    /\ UNCHANGED <<timeVars, fileVars, rootVars, metrics_ret, tableVars, scanVars, journalVars, pageVars>>

NextCatalog == CallGetAvailableRuns

SpecCatalog == InitCatalog /\ [][NextCatalog]_vars

\* The run table callback on one data root and one set of filter values.
CallPopulateRuns ==
    /\ ~pop_ret.called
    /\ pop_ret' = populate_runs(fs, pop_args)
    /\ UNCHANGED <<pop_args, sel, timeVars, fileVars, rootVars, metrics_ret, runs_ret, scanVars, journalVars, pageVars>>

InitFilter ==
    /\ fs \in CatalogRoots
    /\ base_dir = "None" /\ run_name = <<>>
    /\ pop_args \in FilterArgs
    /\ pop_ret = PopulateNotCalled
    /\ sel = SelNotCalled
    /\ IdleTime /\ IdleFile /\ IdleMetrics /\ IdleCatalog /\ IdleScan /\ IdleJournal /\ IdlePage

NextFilter == CallPopulateRuns

SpecFilter == InitFilter /\ [][NextFilter]_vars

\* The run table callback, then extract_selected_runs on the table it
\* returned and a selection (as update_metric_checklist and update_plot
\* call it, with the table's data and selected_rows).
InitSelect ==
    /\ fs \in SelectRoots
    /\ base_dir = "None" /\ run_name = <<>>
    /\ pop_args \in SelectArgs
    /\ pop_ret = PopulateNotCalled
    /\ sel = SelNotCalled
    /\ IdleTime /\ IdleFile /\ IdleMetrics /\ IdleCatalog /\ IdleScan /\ IdleJournal /\ IdlePage

CallExtractSelectedRuns ==
    /\ pop_ret.called /\ ~pop_ret.raised
    /\ ~sel.called
    /\ \E rows \in Selections :
           sel' = [called |-> TRUE, selected_rows |-> rows,
                   ret |-> extract_selected_runs(pop_ret.table_data, rows)]
    /\ UNCHANGED <<pop_args, pop_ret, timeVars, fileVars, rootVars, metrics_ret, runs_ret, scanVars, journalVars, pageVars>>

NextSelect == CallPopulateRuns \/ CallExtractSelectedRuns

SpecSelect == InitSelect /\ [][NextSelect]_vars

\* A scan of the data root while another process modifies it.
InitScan ==
    /\ fs = ScanRoot
    /\ base_dir = "root"
    /\ run_name = RunR
    /\ file = ScanFile
    /\ parse_ret = ParseNotCalled
    /\ scan \in {StartOf(op) : op \in {"runs", "metrics", "data"}}
    /\ changes = 0
    /\ IdleTime /\ IdleMetrics /\ IdleCatalog /\ IdleTable /\ IdleJournal /\ IdlePage

ScanStep(op, pc) == scan.op = op /\ scan.pc = pc /\ ~scan.raised

ScanKeeps == UNCHANGED <<timeVars, fileVars, rootVars, metrics_ret, runs_ret, tableVars, changes, journalVars, pageVars>>

\* get_available_runs: base_dir.exists()
RunsExists ==
    /\ ScanStep("runs", "exists")
    /\ scan' = [scan EXCEPT !.pc = IF Exists(fs) THEN "iterdir" ELSE "done"]
    /\ ScanKeeps

\* get_available_runs: sorted(base_dir.iterdir()); listing a root that is
\* no longer a directory raises out of the function.
RunsIterdir ==
    /\ ScanStep("runs", "iterdir")
    /\ scan' = IF fs.kind = "dir"
               THEN [scan EXCEPT !.pc = "is_dir", !.i = 1,
                                 !.items = Sorted(DOMAIN fs.entries)]
               ELSE [scan EXCEPT !.pc = "done", !.raised = TRUE]
    /\ ScanKeeps

\* get_available_runs: item.is_dir(), or the end of the loop
RunsIsDir ==
    /\ ScanStep("runs", "is_dir")
    /\ scan' = IF scan.i > Len(scan.items)
               THEN [scan EXCEPT !.pc = "done"]
               ELSE IF IsRunDir(fs, scan.items[scan.i])
                    THEN [scan EXCEPT !.pc = "journal_exists"]
                    ELSE [scan EXCEPT !.i = @ + 1]
    /\ ScanKeeps

\* parse_journal_file: journal_path.exists(); without a journal the record
\* keeps the defaults.
RunsJournalExists ==
    /\ ScanStep("runs", "journal_exists")
    /\ LET name == scan.items[scan.i]
       IN  scan' = IF IsRunDir(fs, name) /\ fs.entries[name].journal.present
                   THEN [scan EXCEPT !.pc = "journal_read"]
                   ELSE [scan EXCEPT !.pc = "is_dir", !.i = @ + 1,
                                     !.runs = Append(@, RunRecordOf(name, NoJournal))]
    /\ ScanKeeps

\* parse_journal_file: open and read the journal inside its try
RunsJournalRead ==
    /\ ScanStep("runs", "journal_read")
    /\ LET name == scan.items[scan.i]
       IN  scan' = [scan EXCEPT !.pc = "is_dir", !.i = @ + 1,
                                !.runs = Append(@, RunRecordOf(name, JournalNow(name)))]
    /\ ScanKeeps

\* get_metrics_for_run: run_path.exists() and run_path.is_dir()
MetricsCheck ==
    /\ ScanStep("metrics", "check")
    /\ scan' = [scan EXCEPT !.pc = IF IsRunDir(fs, run_name) THEN "glob_is_dir" ELSE "done"]
    /\ ScanKeeps

\* run_path.glob: pathlib first asks whether the path is a directory and
\* yields nothing when it is not.
MetricsGlobIsDir ==
    /\ ScanStep("metrics", "glob_is_dir")
    /\ scan' = [scan EXCEPT !.pc = IF IsRunDir(fs, run_name) THEN "scandir" ELSE "done"]
    /\ ScanKeeps

\* run_path.glob: pathlib then lists the directory.  When the directory is
\* gone by now, whether the error of the listing leaves glob depends on the
\* pathlib in use, so either outcome can happen.
MetricsScandir ==
    /\ ScanStep("metrics", "scandir")
    /\ IF IsRunDir(fs, run_name)
       THEN scan' = [scan EXCEPT !.pc = "done",
                                 !.metrics = MetricsOfFiles(fs.entries[run_name].files)]
       ELSE \E escapes \in BOOLEAN :
                scan' = [scan EXCEPT !.pc = "done", !.raised = escapes]
    /\ ScanKeeps

\* update_plot: filepath.exists() before parse_data_file(filepath)
DataFileExists ==
    /\ ScanStep("data", "file_exists")
    /\ scan' = [scan EXCEPT !.pc = IF file.readable THEN "parse" ELSE "done"]
    /\ ScanKeeps

\* parse_data_file: open, readlines and the parsing, all inside its try
DataFileParse ==
    /\ ScanStep("data", "parse")
    /\ scan' = [scan EXCEPT !.pc = "done", !.data = parse_data_file(file)]
    /\ ScanKeeps

\* Another process modifies the data root while a scan is in progress.
Modifies ==
    /\ scan.pc # "done"
    /\ changes < MaxChanges
    /\ changes' = changes + 1
    /\ UNCHANGED <<timeVars, parse_ret, base_dir, run_name, metrics_ret, runs_ret, tableVars, scan, journalVars, pageVars>>

DeleteRoot ==
    /\ Modifies
    /\ Exists(fs)
    /\ fs' = MissingRoot
    /\ UNCHANGED file

ReplaceRootByFile ==
    /\ Modifies
    /\ fs.kind # "file"
    /\ fs' = FileRoot
    /\ UNCHANGED file

DeleteRun ==
    /\ Modifies
    /\ fs.kind = "dir"
    /\ \E name \in DOMAIN fs.entries :
           fs' = DirRoot([n \in DOMAIN fs.entries \ {name} |-> fs.entries[n]])
    /\ UNCHANGED file

ReplaceRunByFile ==
    /\ Modifies
    /\ fs.kind = "dir"
    /\ \E name \in DOMAIN fs.entries :
           /\ fs.entries[name].is_dir
           /\ fs' = DirRoot([fs.entries EXCEPT ![name] = PlainFile])
    /\ UNCHANGED file

DeleteJournal ==
    /\ Modifies
    /\ fs.kind = "dir"
    /\ \E name \in DOMAIN fs.entries :
           /\ fs.entries[name].journal.present
           /\ fs' = DirRoot([fs.entries EXCEPT ![name].journal = NoJournal])
    /\ UNCHANGED file

DeleteDataFile ==
    /\ Modifies
    /\ file.readable
    /\ file' = NoFile
    /\ UNCHANGED fs

\* The file is being rewritten: only its first lines are there.
TruncateDataFile ==
    /\ Modifies
    /\ file.readable
    /\ \E n \in 0..(Len(file.lines) - 1) :
           file' = [file EXCEPT !.lines = SubSeq(file.lines, 1, n)]
    /\ UNCHANGED fs

NextScan ==
    \/ RunsExists
    \/ RunsIterdir
    \/ RunsIsDir
    \/ RunsJournalExists
    \/ RunsJournalRead
    \/ MetricsCheck
    \/ MetricsGlobIsDir
    \/ MetricsScandir
    \/ DataFileExists
    \/ DataFileParse
    \/ DeleteRoot
    \/ ReplaceRootByFile
    \/ DeleteRun
    \/ ReplaceRunByFile
    \/ DeleteJournal
    \/ DeleteDataFile
    \/ TruncateDataFile

SpecScan == InitScan /\ [][NextScan]_vars

\* The journal extractor on one run directory.
InitJournal ==
    /\ run_path \in {RunPath(name, journal) : name \in FolderNames, journal \in Journals}
    /\ journal_ret = JournalNotCalled
    /\ IdleTime /\ IdleFile /\ IdleRoot /\ IdleMetrics /\ IdleCatalog /\ IdleTable /\ IdleScan
    /\ IdlePage

CallParseJournalFile ==
    /\ ~journal_ret.called
    /\ journal_ret' = [called |-> TRUE,
                       metadata |-> parse_journal_file(run_path.name, run_path.journal)]
    /\ UNCHANGED <<run_path, timeVars, fileVars, rootVars, metrics_ret, runs_ret, tableVars, scanVars, pageVars>>

NextJournal == CallParseJournalFile

SpecJournal == InitJournal /\ [][NextJournal]_vars

\* The page over a sequence of events.
InitPage ==
    /\ fs \in PageRoots
    /\ base_dir = "None" /\ run_name = <<>>
    /\ pop_args \in {[NoArgs EXCEPT !.data_root = d] : d \in {"", "root"}}
    /\ pop_ret = PopulateNotCalled
    /\ sel = SelNotCalled
    /\ run_table = EmptyTable
    /\ event = "none"
    /\ IdleTime /\ IdleFile /\ IdleMetrics /\ IdleCatalog /\ IdleScan /\ IdleJournal

PageKeeps == UNCHANGED <<sel, timeVars, fileVars, base_dir, run_name, metrics_ret, runs_ret, scanVars, journalVars>>

\* One call of populate_runs with the inputs args; its outputs reach the
\* run table unless it raised.
Invoke(args) ==
    /\ pop_args' = args
    /\ pop_ret' = populate_runs(fs, pop_args')
    /\ run_table' = IF pop_ret'.raised THEN run_table
                    ELSE [data |-> pop_ret'.table_data,
                          selected_rows |-> pop_ret'.selected_rows]
    /\ event' = "populate_runs"
    /\ UNCHANGED fs
    /\ PageKeeps

\* The first call, when the page loads.
PageLoad ==
    /\ ~pop_ret.called
    /\ Invoke([pop_args EXCEPT !.trigger = ""])

\* set_data_root stored a folder that resolve_data_root found to be a
\* directory.
DataRootChange ==
    /\ pop_ret.called
    /\ fs.kind = "dir"
    /\ Invoke([pop_args EXCEPT !.data_root = "root", !.trigger = "data-root-store"])

Refresh ==
    /\ pop_ret.called
    /\ Invoke([pop_args EXCEPT !.trigger = "refresh-runs-btn"])

EditSearch ==
    /\ pop_ret.called
    /\ \E value \in PageSearchTerms \ {pop_args.search_term} :
           Invoke([pop_args EXCEPT !.search_term = value, !.trigger = "run-search"])

EditProcedureFilter ==
    /\ pop_ret.called
    /\ \E value \in PageProcedureFilters \ {pop_args.procedure_filter} :
           Invoke([pop_args EXCEPT !.procedure_filter = value, !.trigger = "procedure-filter"])

EditSampleFilter ==
    /\ pop_ret.called
    /\ \E value \in PageSampleFilters \ {pop_args.sample_filter} :
           Invoke([pop_args EXCEPT !.sample_filter = value, !.trigger = "sample-filter"])

EditVialFilter ==
    /\ pop_ret.called
    /\ \E value \in PageVialFilters \ {pop_args.vial_filter} :
           Invoke([pop_args EXCEPT !.vial_filter = value, !.trigger = "vial-filter"])

SelectAll ==
    /\ pop_ret.called
    /\ Invoke([pop_args EXCEPT !.trigger = "select-all-runs-btn"])

ClearSelection ==
    /\ pop_ret.called
    /\ Invoke([pop_args EXCEPT !.trigger = "clear-runs-btn"])

\* The user ticks or unticks rows of the table (row_selectable='multi').
UserPicksRows ==
    /\ pop_ret.called
    /\ \E S \in SUBSET (0..(Len(run_table.data) - 1)) :
           /\ Ascending(S) # run_table.selected_rows
           /\ run_table' = [run_table EXCEPT !.selected_rows = Ascending(S)]
    /\ event' = "user"
    /\ UNCHANGED <<fs, pop_args, pop_ret>>
    /\ PageKeeps

\* Another process changes the data root: runs appear or disappear, the
\* root is deleted or a regular file takes its place.
RootChanges ==
    /\ pop_ret.called
    /\ fs' \in (PageRoots \cup {MissingRoot, FileRoot}) \ {fs}
    /\ event' = "external"
    /\ UNCHANGED <<pop_args, pop_ret, run_table>>
    /\ PageKeeps

NextPage ==
    \/ PageLoad
    \/ DataRootChange
    \/ Refresh
    \/ EditSearch
    \/ EditProcedureFilter
    \/ EditSampleFilter
    \/ EditVialFilter
    \/ SelectAll
    \/ ClearSelection
    \/ UserPicksRows
    \/ RootChanges

SpecPage == InitPage /\ [][NextPage]_vars

----------------------------------------------------------------------------
(* Claims about the time codec (checked under SpecTime)                    *)

\* A colon-delimited part is numeric when it reads as a decimal number.
IsNumeric(part) == ParseFloat(part).ok

\* hours*3600 + minutes*60 + seconds over decimals.
TimeFormula(h, m, s) ==
    Fin(h.n * 3600 * m.d * s.d + m.n * 60 * h.d * s.d + s.n * h.d * m.d,
        h.d * m.d * s.d)

\* C3: for any string, parse_time_to_seconds never raises; it returns None
\* when the string has fewer than 3 colon-delimited parts or any part is not
\* numeric, and hours*3600 + minutes*60 + seconds otherwise.
C3_TimeCodecContract ==
    time_ret # NotCalled =>
        LET parts == Split(time_str, ":")
            failing == \/ Len(parts) < 3
                       \/ \E i \in 1..Len(parts) : ~IsNumeric(parts[i])
        IN  /\ time_ret.tag # "raise"
            /\ failing => time_ret = None
            /\ ~failing =>
                   LET h == ParseFloat(parts[1])
                       m == ParseFloat(parts[2])
                       s == ParseFloat(parts[3])
                   IN  /\ time_ret.tag = "value"
                       /\ (h.k = "fin" /\ m.k = "fin" /\ s.k = "fin")
                              => time_ret = Value(TimeFormula(h, m, s))

----------------------------------------------------------------------------
(* Claims about the trace file parser (checked under SpecFile)             *)

ParseCalled == parse_ret # ParseNotCalled

DataRows == Tail(file.lines)

\* A data row survives when it is non-blank, has at least 2 tab-separated
\* fields, its first field decodes and its second parses as a float.
RowSurvives(line) ==
    LET fields == Split(line, TAB)
    IN  /\ Strip(line) # <<>>
        /\ Len(fields) >= 2
        /\ parse_time_to_seconds(fields[1]).tag = "value"
        /\ ParseFloat(fields[2]).ok

RECURSIVE SurvivingRows(_)
SurvivingRows(rows) ==
    IF rows = <<>> THEN <<>>
    ELSE (IF RowSurvives(rows[1]) THEN <<rows[1]>> ELSE <<>>)
             \o SurvivingRows(Tail(rows))

RowTime(line) == parse_time_to_seconds(Split(line, TAB)[1])
RowValue(line) == ParseFloat(Split(line, TAB)[2])

\* C1: for a file of at least 2 lines the series is exactly the surviving
\* data rows in file order, times and values have equal length, and a
\* malformed row never stops later rows from being parsed.
C1_SeriesIsSurvivingRows ==
    (ParseCalled /\ file.readable /\ Len(file.lines) >= 2) =>
        LET kept == SurvivingRows(DataRows)
        IN  /\ Len(parse_ret.times) = Len(parse_ret.values)
            /\ parse_ret.times = [i \in 1..Len(kept) |-> RowTime(kept[i])]
            /\ parse_ret.values = [i \in 1..Len(kept) |-> RowValue(kept[i])]

\* A data row the parser's own row test keeps, taken alone.
LoopKeeps(line) == ParseRow(line, EmptyAcc).times # <<>>

\* C2: parse_data_file never raises; it returns "no data" exactly when the
\* file cannot be read, has fewer than 2 lines or has no surviving data row
\* (here: no row that the parser's row test keeps), and a non-empty series
\* with a label in every other case.
C2_NoDataExactly ==
    ParseCalled =>
        LET nothing == \/ ~file.readable
                       \/ Len(file.lines) < 2
                       \/ \A i \in 1..Len(DataRows) : ~LoopKeeps(DataRows[i])
        IN  /\ parse_ret.tag # "raise"
            /\ nothing <=> parse_ret = NoData
            /\ ~nothing => /\ parse_ret.tag = "series"
                           /\ parse_ret.times # <<>>
                           /\ parse_ret.values # <<>>

\* C10: the label is the second tab-separated field of the first line
\* whenever that line has one (also when its first field is empty or
\* blank), and "Unknown" only when it has none.
C10_LabelIsSecondHeaderField ==
    (ParseCalled /\ parse_ret.tag = "series") =>
        LET fields == Split(file.lines[1], TAB)
        IN  /\ Len(fields) >= 2 => parse_ret.label = fields[2]
            /\ parse_ret.label = Unknown => Len(fields) < 2

----------------------------------------------------------------------------
(* Claims about the metric indexer (checked under SpecMetrics)             *)

\* A name of the form Pump-<anything>.txt
IsPumpFile(n) ==
    /\ Len(n) >= Len(PumpPrefix) + Len(TxtSuffix)
    /\ n = PumpPrefix
             \o SubSeq(n, Len(PumpPrefix) + 1, Len(n) - Len(TxtSuffix))
             \o TxtSuffix

\* The name without its .txt
PumpFileStem(n) == SubSeq(n, 1, Len(n) - Len(TxtSuffix))

FirstUnderscore(s) == Min({i \in 1..Len(s) : s[i] = "_"})

\* At least 2 underscore-delimited tokens
HasTwoTokens(s) == \E i \in 1..Len(s) : s[i] = "_"

Indexed(n) == IsPumpFile(n) /\ HasTwoTokens(PumpFileStem(n))

\* Where a file name occurs in a mapping: the pairs <<pump, position>>.
Occurrences(m, n) ==
    {po \in UNION {{<<p, i>> : i \in 1..Len(m[p])} : p \in DOMAIN m} :
        m[po[1]][po[2]].filename = n}

MetricsScanned ==
    metrics_ret.called /\ base_dir = "root" /\ IsRunDir(fs, run_name)

\* C9: every file matching Pump-*.txt whose stem has at least 2 tokens
\* appears exactly once, under the pump equal to its first token and with
\* the remaining tokens rejoined with '_' as its metric name; other files
\* appear nowhere; each pump group is in lexicographic file-name order.
C9_MetricsGrouping ==
    MetricsScanned =>
        LET files == fs.entries[run_name].files
            m == metrics_ret.metrics
        IN  /\ \A n \in {x \in files : Indexed(x)} :
                   LET stem == PumpFileStem(n)
                       at == FirstUnderscore(stem)
                   IN  /\ Cardinality(Occurrences(m, n)) = 1
                       /\ \A po \in Occurrences(m, n) :
                              /\ po[1] = SubSeq(stem, 1, at - 1)
                              /\ m[po[1]][po[2]].name = SubSeq(stem, at + 1, Len(stem))
            /\ \A p \in DOMAIN m : \A i \in 1..Len(m[p]) :
                   m[p][i].filename \in files /\ Indexed(m[p][i].filename)
            /\ \A p \in DOMAIN m : \A i, j \in 1..Len(m[p]) :
                   i < j => StrLess(m[p][i].filename, m[p][j].filename)

\* A scan of a directory with a metric of two tokens, a second file of the
\* same pump and a file whose stem has one token.
C9_Witness ==
    /\ MetricsScanned
    /\ {<<"P", "u", "m", "p", "-", "A", "_", "f", "_", "x", ".", "t", "x", "t">>, <<"P", "u", "m", "p", "-", "A", "_", "p", ".", "t", "x", "t">>, <<"P", "u", "m", "p", "-", "A", ".", "t", "x", "t">>} \subseteq fs.entries[run_name].files
    /\ Len(metrics_ret.metrics[<<"P", "u", "m", "p", "-", "A">>]) = 2

----------------------------------------------------------------------------
(* Claims about the run catalog                                            *)

\* C4: get_available_runs returns the empty list, without raising, whenever
\* the root is None, does not exist, or exists but is not a directory.
\* (Checked under SpecCatalog.)
C4_EmptyListForBadRoot ==
    (runs_ret.called /\ (base_dir = "None" \/ fs.kind # "dir")) =>
        (~runs_ret.raised /\ runs_ret.runs = <<>>)

\* a is a substring of b, letter case aside.
InsensitiveSubstring(a, b) ==
    \E off \in 0..(Len(b) - Len(a)) :
        \A j \in 1..Len(a) : LowerChar(b[off + j]) = LowerChar(a[j])

\* A criterion constrains only when it is given and not empty.
Satisfies(criterion, field_text) ==
    (criterion.given /\ criterion.text # <<>>)
        => InsensitiveSubstring(criterion.text, field_text)

PassesAll(run, args) ==
    /\ Satisfies(args.search_term, run.name)
    /\ Satisfies(args.procedure_filter, run.procedure)
    /\ Satisfies(args.sample_filter, run.sample)
    /\ Satisfies(args.vial_filter, run.vial)

\* The positions, in increasing order, of the runs that pass.
RECURSIVE PassingFrom(_, _, _)
PassingFrom(runs, args, i) ==
    IF i > Len(runs) THEN <<>>
    ELSE (IF PassesAll(runs[i], args) THEN <<i>> ELSE <<>>)
             \o PassingFrom(runs, args, i + 1)

Populated == pop_ret.called /\ ~pop_ret.raised

\* C7: the filter of populate_runs returns exactly the runs, in their
\* original order, for which every non-empty criterion is a
\* case-insensitive substring of the corresponding field; empty or omitted
\* criteria impose no constraint.  (Checked under SpecFilter.)
C7_FilterIsConjunction ==
    Populated =>
        LET runs == get_available_runs(fs, "root").runs
            keep == PassingFrom(runs, pop_args, 1)
        IN  /\ Len(pop_ret.table_data) = Len(keep)
            /\ \A k \in 1..Len(keep) :
                   /\ pop_ret.table_data[k].folder = runs[keep[k]].name
                   /\ pop_ret.table_data[k].procedure = runs[keep[k]].procedure
                   /\ pop_ret.table_data[k].sample = runs[keep[k]].sample
                   /\ pop_ret.table_data[k].vial = runs[keep[k]].vial

\* Two criteria that differ from the fields in case keep the one run that
\* both match, out of three.
C7_Witness ==
    /\ Populated
    /\ Len(get_available_runs(fs, "root").runs) = 3
    /\ pop_args.search_term = Text(<<"A", "B">>)
    /\ pop_args.vial_filter = Text(<<"b">>)
    /\ Len(pop_ret.table_data) = 1
    /\ pop_ret.table_data[1].folder = RunA

EmptySelection(s) == s.none \/ s.rows = <<>>

ButtonTriggers == {"select-all-runs-btn", "clear-runs-btn"}

\* C5: with an empty or absent selection extract_selected_runs returns
\* exactly the first run of the table when the table is non-empty and the
\* empty list when it is empty; populate_runs pre-selects row 0 of a
\* non-empty table when neither Select All nor Clear Selection triggered it.
\* (Checked under SpecSelect.)
C5_DefaultToFirst ==
    /\ (sel.called /\ EmptySelection(sel.selected_rows)) =>
           sel.ret = IF pop_ret.table_data # <<>>
                     THEN <<pop_ret.table_data[1].folder>>
                     ELSE <<>>
    /\ (Populated /\ pop_args.trigger \notin ButtonTriggers
            /\ pop_ret.table_data # <<>>) =>
           pop_ret.selected_rows = <<Idx(0)>>

\* A filter edit filled a table of two runs and pre-selected row 0, and
\* extract_selected_runs, given None, returned the first run.
C5_Witness ==
    /\ Populated
    /\ pop_args.trigger = "run-search"
    /\ Len(pop_ret.table_data) = 2
    /\ pop_ret.selected_rows = <<Idx(0)>>
    /\ sel.called /\ sel.selected_rows.none
    /\ sel.ret = <<RunA>>

InRange(idx, n) == idx.int /\ idx.v >= 0 /\ idx.v < n

\* The names a selection resolves to: those of its entries that are row
\* indices of the table, in selection order.
ResolvedNames(table, rows) ==
    LET valid == SelectSeq(rows, LAMBDA idx : InRange(idx, Len(table)))
    IN  [k \in 1..Len(valid) |-> table[valid[k].v + 1].folder]

SuppliedSelection == sel.called /\ ~EmptySelection(sel.selected_rows)

\* C6 as stated: given a non-empty selection extract_selected_runs returns
\* exactly the names the selection resolves to, in selection order, and
\* never falls back to the first run.
C6_NeverFallsBack ==
    (SuppliedSelection /\ pop_ret.table_data # <<>>) =>
        sel.ret = ResolvedNames(pop_ret.table_data, sel.selected_rows.rows)

\* C6 as amended: given a non-empty selection extract_selected_runs returns
\* the names of the entries that are row indices of the table, in selection
\* order, when there is such an entry; when no entry is a row index of the
\* table it falls back to the first run, as for an empty selection; for an
\* empty table it returns the empty list.  (Checked under SpecSelect.)
C6_FallsBackWhenNothingResolves ==
    SuppliedSelection =>
        LET table == pop_ret.table_data
            names == ResolvedNames(table, sel.selected_rows.rows)
        IN  sel.ret = IF table = <<>> THEN <<>>
                      ELSE IF names # <<>> THEN names
                      ELSE <<table[1].folder>>

\* A selection whose only entry is an index past a table of two rows came
\* back as the first row's name.
C6_Witness ==
    /\ SuppliedSelection
    /\ Len(pop_ret.table_data) = 2
    /\ sel.selected_rows.rows = <<Idx(2)>>
    /\ sel.ret = <<pop_ret.table_data[1].folder>>

----------------------------------------------------------------------------
(* Claims about scans under concurrent modification (checked under         *)
(* SpecScan)                                                               *)

ScanDone == scan.op # "none" /\ scan.pc = "done"

\* C8: a scan of the data root (get_available_runs, get_metrics_for_run,
\* parse_journal_file, parse_data_file) interleaved at any point with another
\* process modifying the root never raises: a path that vanished or became
\* unreadable is skipped or yields no data.
C8_ScanNeverRaises == ScanDone => ~scan.raised

----------------------------------------------------------------------------
(* Claims about the journal extractor (checked under SpecJournal)          *)

JournalCalled == journal_ret.called

\* The journal was there and read to its end.
JournalReadFully ==
    /\ JournalCalled
    /\ run_path.journal.present
    /\ run_path.journal.fail_after = -1

\* The four journal-sourced fields with their keys.
JournalFields ==
    { <<"procedure_name", KeyName>>, <<"log_name", KeyLogname>>,
      <<"sample_name", KeySamplename>>, <<"vial_position", KeyVialposition>> }

\* The trimmed text after the first colon of a line.
TrimmedAfterColon(line) == Strip(Join(Tail(Split(line, ":")), ":"))

Max(S) == CHOOSE x \in S : \A y \in S : y <= x

\* The lines that start with the key, as they stand in the file.
LinesStartingWith(lines, key) ==
    {i \in 1..Len(lines) : StartsWith(lines[i], key)}

\* C11 as stated: each of the four fields is the trimmed text after the
\* first colon of a line that starts with its key, and is empty when no
\* line starts with its key, so a line that starts with none of the keys
\* changes no field.
C11_FieldsFromKeyedLines ==
    JournalReadFully =>
        \A fk \in JournalFields :
            LET lines == run_path.journal.lines
                carriers == LinesStartingWith(lines, fk[2])
                field == journal_ret.metadata[fk[1]]
            IN  IF carriers = {}
                THEN field = <<>>
                ELSE field \in {TrimmedAfterColon(lines[i]) : i \in carriers}

\* The lines that start with the key once their leading and trailing
\* whitespace is removed.
TrimmedLinesStartingWith(lines, key) ==
    {i \in 1..Len(lines) : StartsWith(Strip(lines[i]), key)}

\* C11 as amended: each of the four fields is the trimmed text after the
\* first colon of the last line that starts with its key once the line's
\* leading and trailing whitespace is removed, and is empty when no line
\* does; a line that after trimming starts with none of the keys changes no
\* field.
C11_FieldsFromTrimmedLines ==
    JournalReadFully =>
        \A fk \in JournalFields :
            LET lines == run_path.journal.lines
                carriers == TrimmedLinesStartingWith(lines, fk[2])
                field == journal_ret.metadata[fk[1]]
            IN  field = IF carriers = {} THEN <<>>
                        ELSE TrimmedAfterColon(lines[Max(carriers)])

\* A journal whose second line carries Procedure.Name: after leading blanks
\* gave that line's value, not the first line's.
C11_Witness ==
    /\ JournalReadFully
    /\ run_path.journal.lines = << <<"P", "r", "o", "c", "e", "d", "u", "r", "e", ".", "N", "a", "m", "e", ":", " ", "Q", "c">>, <<" ", " ", "P", "r", "o", "c", "e", "d", "u", "r", "e", ".", "N", "a", "m", "e", ":", " ", "x">> >>
    /\ journal_ret.metadata.procedure_name = <<"x">>
    /\ journal_ret.metadata.sample_name = <<>>
\* journal.txt is absent, or open() or the read of it raised.
JournalUnreadable ==
    /\ JournalCalled
    /\ (~run_path.journal.present \/ run_path.journal.fail_after # -1)

\* C12: when journal.txt is absent or its read fails at any point, also
\* after some lines were consumed, the four journal-sourced fields of the
\* record parse_journal_file returns are all empty.
C12_UnreadableJournalLeavesFieldsEmpty ==
    JournalUnreadable =>
        \A fk \in JournalFields : journal_ret.metadata[fk[1]] = <<>>
\* The token with every hyphen replaced by a colon.
HyphensToColons(token) ==
    [i \in 1..Len(token) |-> IF token[i] = "-" THEN ":" ELSE token[i]]

\* C13: the date_time parse_journal_file returns is, for a directory name
\* of at least 3 '_' tokens, the second-to-last token, a space and the last
\* token with every hyphen replaced by a colon, and the empty string for a
\* name of fewer tokens, whatever the journal holds and whether or not it
\* reads.
C13_DateTimeFromFolderName ==
    JournalCalled =>
        LET tokens == Split(run_path.name, "_")
            n == Len(tokens)
        IN  journal_ret.metadata.date_time =
                IF n >= 3
                THEN tokens[n - 1] \o <<" ">> \o HyphensToColons(tokens[n])
                ELSE <<>>

\* A directory name of four tokens, beside a journal that set a field, gave
\* the date and time of its last two tokens.
C13_Witness ==
    /\ JournalReadFully
    /\ run_path.name = <<"x", "_", "a", "_", "b", "_", "1", "-", "2">>
    /\ journal_ret.metadata.sample_name = <<"Q", "C", "0", "1">>
    /\ journal_ret.metadata.date_time = <<"b", " ", "1", ":", "2">>
----------------------------------------------------------------------------
(* Claims about the page (checked under SpecPage)                          *)

\* The selected_rows the trigger calls for, over a table of n rows.
RowsForTrigger(trigger, n) ==
    IF trigger = "select-all-runs-btn" THEN [i \in 1..n |-> Idx(i - 1)]
    ELSE IF trigger = "clear-runs-btn" THEN <<>>
    ELSE IF n > 0 THEN <<Idx(0)>> ELSE <<>>

\* rows holds only valid, distinct indices into a table of n rows, and is
\* what the trigger calls for.
SelectionFollows(trigger, rows, n) ==
    /\ \A i \in 1..Len(rows) : InRange(rows[i], n)
    /\ \A i, j \in 1..Len(rows) : i # j => rows[i] # rows[j]
    /\ rows = RowsForTrigger(trigger, n)

\* Every call of populate_runs that returns outputs a selected_rows that
\* follows its trigger over the table_data of the same call.
ReturnedSelectionFollows ==
    (event = "populate_runs" /\ ~pop_ret.raised) =>
        SelectionFollows(pop_args.trigger, pop_ret.selected_rows, Len(pop_ret.table_data))

\* C14: after any sequence of populate_runs invocations the selected_rows
\* of the run table holds only valid, distinct indices into the table's
\* data: all indices after Select All, none after Clear Selection, and [0]
\* (or [] for an empty table) after every other trigger, so a filter edit or
\* a refresh always discards a previous selection of several runs.
C14_SelectionFollowsTrigger ==
    event = "populate_runs" =>
        SelectionFollows(pop_args.trigger, run_table.selected_rows, Len(run_table.data))

=============================================================================
